---------------------------- MODULE Spec2Model ----------------------------
(***************************************************************************)
(* A model of the E1.31 (sACN) receiver of src/lib/server.js: the Server   *)
(* object, its dgram socket, the tracked universe list, the last-seen      *)
(* sequence map and the events the server emits.                           *)
(*                                                                         *)
(* One action per handler or public method.  Every action records what it  *)
(* did on the outside: the events it emitted (events), the membership      *)
(* calls it issued on the socket (calls), whether it ended by an exception *)
(* (threw) and which operation it was (op).                                *)
(*                                                                         *)
(* The dgram socket is the platform's.  Its contract, as far as the server *)
(* uses it: addMembership/dropMembership/close throw on a socket that was  *)
(* closed (ERR_SOCKET_DGRAM_NOT_RUNNING); addMembership of a group that is *)
(* already joined fails (EADDRINUSE) and dropMembership of a group that is *)
(* not joined fails (EADDRNOTAVAIL), both thrown; a membership call on a   *)
(* socket that is not yet bound succeeds (the socket is bound implicitly); *)
(* a throw inside forEach ends the iteration.  bind either completes       *)
(* ('listening') or fails ('error', the socket left unbound and open).     *)
(***************************************************************************)
EXTENDS Integers, Sequences, FiniteSets, TLC

VARIABLES
    ctor,                \* the first argument the constructor was called with
    universes,           \* this.universes: a list, duplicates possible
    lastSequenceNumber,  \* this._lastSequenceNumber: universe -> sequence number
    sockState,           \* this._socket: binding, listening, unbound, closing, closed
    joined,              \* this._socket: the multicast groups it is a member of
    events,              \* the events the last operation emitted, in order
    calls,               \* the membership calls the last operation issued, in order
    threw,               \* whether the last operation ended by an exception
    op                   \* the last operation

vars == <<ctor, universes, lastSequenceNumber, sockState, joined, events, calls, threw, op>>

---------------------------------------------------------------------------
(* Bounds of the model. *)

\* the longest list of universes handed to the constructor
MaxCtorLen == 2
\* the longest list handed to addUniverses or dropUniverses
MaxArgLen == 2

\* The universes of the model: one whose number fits a byte, one whose
\* number does not.
Universes == {1, 256}

\* all lists over S of length lo..hi
ListsOf(S, lo, hi) == UNION {[1..n -> S] : n \in lo..hi}

\* The sequence numbers datagrams carry in the model: 0 (the initial value),
\* 9, 10, 11 (neighbours) and 245 (21 behind 10 and 20 behind 9, modulo 256).
SeqNums == {0, 9, 10, 11, 245}

---------------------------------------------------------------------------
(* Helpers on lists and maps, as the JavaScript built-ins work. *)

\* Array.prototype.includes
Includes(list, u) == \E i \in 1..Len(list) : list[i] = u

\* Array.prototype.indexOf, 1-based; 0 when absent
IndexOf(list, u) ==
    IF Includes(list, u)
    THEN CHOOSE i \in 1..Len(list) : list[i] = u /\ \A j \in 1..(i - 1) : list[j] # u
    ELSE 0

\* list.splice(i, 1), i 1-based
Splice1(list, i) == [j \in 1..(Len(list) - 1) |-> IF j < i THEN list[j] ELSE list[j + 1]]

\* obj[k] = v
Put(map, k, v) == [x \in (DOMAIN map) \cup {k} |-> IF x = k THEN v ELSE map[x]]

\* delete obj[k]
Delete(map, k) == [x \in (DOMAIN map) \ {k} |-> map[x]]

---------------------------------------------------------------------------
(* The collaborators of lib/e131, which the server only calls. *)

\* e131.getMulticastGroup: 239.255.hi.lo, hi and lo the bytes of the universe
getMulticastGroup(universe) == <<239, 255, universe \div 256, universe % 256>>

\* the difference of two 8-bit sequence numbers read as a signed 8-bit number
SignedDiff8(a, b) ==
    LET d == (a - b) % 256
    IN  IF d >= 128 THEN d - 256 ELSE d

\* packet.discard(lastSeen): no last-seen value, never discarded; otherwise
\* discarded when the signed difference is in -20..0
discard(packet, lastSeen) ==
    /\ lastSeen # <<>>
    /\ SignedDiff8(packet.sequenceNumber, lastSeen[1]) \in (0 - 20)..0

\* packet.validate(): the outcome the parsed datagram carries
validate(packet) == packet.validation

ERR_NONE == "ERR_NONE"
ValidationErrors == {"ERR_ACN_PID", "ERR_VECTOR_DMP"}

\* the datagrams the socket may deliver: the valid ones, and for every reason
\* of rejection and universe an invalid one
Packets ==
    [validation : {ERR_NONE}, universe : Universes, sequenceNumber : SeqNums]
    \cup [validation : ValidationErrors, universe : Universes, sequenceNumber : {10}]

\* self._lastSequenceNumber[universe]: <<>> stands for undefined
LastSeen(map, universe) == IF universe \in DOMAIN map THEN <<map[universe]>> ELSE <<>>

---------------------------------------------------------------------------
(* The dgram socket's membership calls.  st is the part of the state a      *)
(* forEach body works on: universes, lastSeq, joined, calls, threw, state.  *)

SockOpen(state) == state \in {"binding", "listening", "unbound"}

\* this._socket.addMembership(e131.getMulticastGroup(universe), ...)
addMembership(st, universe) ==
    LET group == getMulticastGroup(universe)
        st1 == [st EXCEPT !.calls = Append(@, <<"addMembership", group>>)]
    IN  IF ~SockOpen(st.state) \/ group \in st.joined
        THEN [st1 EXCEPT !.threw = TRUE]
        ELSE [st1 EXCEPT !.joined = @ \cup {group}]

\* this._socket.dropMembership(e131.getMulticastGroup(universe), ...)
dropMembership(st, universe) ==
    LET group == getMulticastGroup(universe)
        st1 == [st EXCEPT !.calls = Append(@, <<"dropMembership", group>>)]
    IN  IF ~SockOpen(st.state) \/ group \notin st.joined
        THEN [st1 EXCEPT !.threw = TRUE]
        ELSE [st1 EXCEPT !.joined = @ \ {group}]

\* the state a handler starts from: nothing called, nothing thrown yet
Start ==
    [universes |-> universes, lastSeq |-> lastSequenceNumber, joined |-> joined,
     state |-> sockState, calls |-> <<>>, threw |-> FALSE]

---------------------------------------------------------------------------
(* Construction.  The constructor's first argument is undefined, a number, *)
(* an array, or a configuration object whose universes field is absent, a  *)
(* number or an array.                                                     *)

CtorArgs ==
    {[kind |-> "undefined"]}
    \cup [kind : {"number"}, value : Universes]
    \cup [kind : {"array"}, value : ListsOf(Universes, 0, MaxCtorLen)]
    \cup {[kind |-> "config", universes |-> [kind |-> "undefined"]]}
    \cup [kind : {"config"}, universes : [kind : {"number"}, value : Universes]]
    \cup [kind : {"config"},
          universes : [kind : {"array"}, value : ListsOf(Universes, 0, MaxCtorLen)]]

\* universes instanceof Object || universes === undefined: an array is an
\* Object, a number is not
ConfigForm(arg) == arg.kind \in {"undefined", "array", "config"}

\* this.universes as the constructor leaves it
CtorUniverses(arg) ==
    IF ConfigForm(arg)
    THEN \* config = universes || {}; an array or {} has no universes field
         IF arg.kind = "config" /\ arg.universes.kind = "number"
         THEN <<arg.universes.value>>
         ELSE IF arg.kind = "config" /\ arg.universes.kind = "array"
         THEN arg.universes.value
         ELSE <<>>
    ELSE \* a number: universes = [universes]; [0x01] only were it falsy
         <<arg.value>>

Init ==
    /\ ctor \in CtorArgs
    /\ universes = CtorUniverses(ctor)
    /\ lastSequenceNumber = <<>>
    /\ sockState = "binding"
    /\ joined = {}
    /\ events = <<>>
    /\ calls = <<>>
    /\ threw = FALSE
    /\ op = "construct"

---------------------------------------------------------------------------
(* The bind callback and the socket's 'listening' event. *)

\* the configuration form's callback body, for one universe
BindJoinConfig(st, universe) ==
    addMembership([st EXCEPT !.lastSeq = Put(@, universe, 0)], universe)

\* BindJoinPositional without the join
BindJoinPositional_NoJoin(st, universe) == st

\* the positional form's callback body, for one universe
BindJoinPositional(st, universe) == addMembership(st, universe)

RECURSIVE BindForEach(_, _, _)
BindForEach(st, list, config) ==
    IF list = <<>> \/ st.threw
    THEN st
    ELSE BindForEach(IF config THEN BindJoinConfig(st, Head(list))
                               ELSE BindJoinPositional(st, Head(list)),
                     Tail(list), config)

\* bind completes: the callback given to bind runs first (it was registered
\* first), then onListening relays 'listening', unless the callback threw
BindComplete ==
    /\ sockState = "binding"
    /\ LET st == BindForEach(Start, universes, ConfigForm(ctor))
       IN  /\ lastSequenceNumber' = st.lastSeq
           /\ joined' = st.joined
           /\ calls' = st.calls
           /\ threw' = st.threw
           /\ events' = IF st.threw THEN <<>> ELSE <<<<"listening">>>>
    /\ sockState' = "listening"
    /\ op' = "bind"
    /\ UNCHANGED <<ctor, universes>>

\* the socket reports an error: a failed bind leaves it unbound and open, an
\* error while listening leaves it listening; onError relays it
SocketError ==
    /\ sockState \in {"binding", "listening"}
    /\ sockState' = IF sockState = "binding" THEN "unbound" ELSE sockState
    /\ events' = <<<<"error">>>>
    /\ calls' = <<>>
    /\ threw' = FALSE
    /\ op' = "error"
    /\ UNCHANGED <<ctor, universes, lastSequenceNumber, joined>>

---------------------------------------------------------------------------
(* The receive path. *)

\* MessageEvents with the outcome of discard read the wrong way round
MessageEvents_Inverted(packet, map) ==
    IF validate(packet) # ERR_NONE
    THEN <<<<"packet-error", packet, validate(packet)>>>>
    ELSE IF ~discard(packet, LastSeen(map, packet.universe))
    THEN <<<<"packet-out-of-order", packet>>>>
    ELSE <<<<"packet", packet>>>>

\* MessageEvents without the else: a stale datagram is reported twice
MessageEvents_NoElse(packet, map) ==
    IF validate(packet) # ERR_NONE
    THEN <<<<"packet-error", packet, validate(packet)>>>>
    ELSE IF discard(packet, LastSeen(map, packet.universe))
    THEN <<<<"packet-out-of-order", packet>>, <<"packet", packet>>>>
    ELSE <<<<"packet", packet>>>>

\* onMessage's events for one datagram
MessageEvents(packet, map) ==
    IF validate(packet) # ERR_NONE
    THEN <<<<"packet-error", packet, validate(packet)>>>>
    ELSE IF discard(packet, LastSeen(map, packet.universe))
    THEN <<<<"packet-out-of-order", packet>>>>
    ELSE <<<<"packet", packet>>>>

\* MessageLastSeq without the return that follows packet-error
MessageLastSeq_NoReturn(packet, map) == Put(map, packet.universe, packet.sequenceNumber)

\* MessageLastSeq that updates only a universe that has an entry
MessageLastSeq_OnlyTracked(packet, map) ==
    IF validate(packet) # ERR_NONE \/ packet.universe \notin DOMAIN map
    THEN map
    ELSE Put(map, packet.universe, packet.sequenceNumber)

\* MessageLastSeq with one last-seen value for all universes that have one
MessageLastSeq_AllUniverses(packet, map) ==
    IF validate(packet) # ERR_NONE
    THEN map
    ELSE [x \in (DOMAIN map) \cup {packet.universe} |-> packet.sequenceNumber]

\* onMessage's effect on the last-seen map
MessageLastSeq(packet, map) ==
    IF validate(packet) # ERR_NONE
    THEN map
    ELSE Put(map, packet.universe, packet.sequenceNumber)

\* onMessage run for a datagram whatever the state of the socket
onMessage_AnyState(packet) ==
    /\ events' = MessageEvents(packet, lastSequenceNumber)
    /\ lastSequenceNumber' = MessageLastSeq(packet, lastSequenceNumber)
    /\ calls' = <<>>
    /\ threw' = FALSE
    /\ op' = "message"
    /\ UNCHANGED <<ctor, universes, sockState, joined>>

\* the socket delivers a datagram: only a listening socket receives
onMessage(packet) ==
    /\ sockState = "listening"
    /\ events' = MessageEvents(packet, lastSequenceNumber)
    /\ lastSequenceNumber' = MessageLastSeq(packet, lastSequenceNumber)
    /\ calls' = <<>>
    /\ threw' = FALSE
    /\ op' = "message"
    /\ UNCHANGED <<ctor, universes, sockState, joined>>

---------------------------------------------------------------------------
(* close, addUniverses, dropUniverses. *)

\* Server.prototype.close: socket.close() throws on a socket already closed;
\* otherwise the socket stops receiving, leaves its groups and will emit 'close'
close ==
    /\ IF SockOpen(sockState)
       THEN /\ sockState' = "closing"
            /\ joined' = {}
            /\ threw' = FALSE
       ELSE /\ UNCHANGED <<sockState, joined>>
            /\ threw' = TRUE
    /\ events' = <<>>
    /\ calls' = <<>>
    /\ op' = "close"
    /\ UNCHANGED <<ctor, universes, lastSequenceNumber>>

\* the socket's 'close' event, once teardown completes; onClose relays it
onClose ==
    /\ sockState = "closing"
    /\ sockState' = "closed"
    /\ events' = <<<<"close">>>>
    /\ calls' = <<>>
    /\ threw' = FALSE
    /\ op' = "closed"
    /\ UNCHANGED <<ctor, universes, lastSequenceNumber, joined>>

\* AddOne without the initialisation of the last-seen value
AddOne_NoInit(st, universe) ==
    IF Includes(st.universes, universe)
    THEN st
    ELSE addMembership([st EXCEPT !.universes = Append(@, universe)], universe)

\* addUniverses' forEach body
AddOne(st, universe) ==
    IF Includes(st.universes, universe)
    THEN st
    ELSE addMembership([st EXCEPT !.universes = Append(@, universe),
                                  !.lastSeq = Put(@, universe, 0)], universe)

\* DropOne without the test that the universe is tracked: indexOf gives -1
\* and splice(-1, 1) removes the last element
DropOne_NoGuard(st, universe) ==
    LET i == IF Includes(st.universes, universe)
             THEN IndexOf(st.universes, universe)
             ELSE Len(st.universes)
    IN  dropMembership([st EXCEPT !.universes = IF @ = <<>> THEN @ ELSE Splice1(@, i),
                                  !.lastSeq = Delete(@, universe)], universe)

\* dropUniverses' forEach body
DropOne(st, universe) ==
    IF ~Includes(st.universes, universe)
    THEN st
    ELSE dropMembership([st EXCEPT !.universes = Splice1(@, IndexOf(@, universe)),
                                   !.lastSeq = Delete(@, universe)], universe)

RECURSIVE AddForEach(_, _)
AddForEach(st, list) ==
    IF list = <<>> \/ st.threw THEN st ELSE AddForEach(AddOne(st, Head(list)), Tail(list))

RECURSIVE DropForEach(_, _)
DropForEach(st, list) ==
    IF list = <<>> \/ st.threw THEN st ELSE DropForEach(DropOne(st, Head(list)), Tail(list))

\* what a forEach over the universes leaves
Finish(st, name) ==
    /\ universes' = st.universes
    /\ lastSequenceNumber' = st.lastSeq
    /\ joined' = st.joined
    /\ calls' = st.calls
    /\ threw' = st.threw
    /\ events' = <<>>
    /\ op' = name
    /\ UNCHANGED <<ctor, sockState>>

addUniverses(list) == Finish(AddForEach(Start, list), "addUniverses")

dropUniverses(list) == Finish(DropForEach(Start, list), "dropUniverses")

ArgLists == ListsOf(Universes, 1, MaxArgLen)

---------------------------------------------------------------------------

Next ==
    \/ BindComplete
    \/ SocketError
    \/ \E packet \in Packets : onMessage(packet)
    \/ close
    \/ onClose
    \/ \E list \in ArgLists : addUniverses(list)
    \/ \E list \in ArgLists : dropUniverses(list)

Spec == Init /\ [][Next]_vars

---------------------------------------------------------------------------
(* Vocabulary of the properties. *)

\* the universes whose multicast group the socket is a member of
JoinedUniverses == {u \in Universes : getMulticastGroup(u) \in joined}

\* the universes that have an entry in the last-seen map
TrackedSequences == DOMAIN lastSequenceNumber

\* the membership calls of a list of calls, as a set
Issued(list) == {list[i] : i \in 1..Len(list)}

---------------------------------------------------------------------------
(* C1.  A valid datagram for a tracked universe with a last-seen value S,   *)
(* whose sequence number the discard rule classifies as stale relative to  *)
(* S, is reported as packet-out-of-order and leaves the last-seen value of *)
(* its universe at S.                                                       *)
C1_StaleLeavesLastSeen ==
    [][\A p \in Packets :
         (/\ onMessage(p)
          /\ validate(p) = ERR_NONE
          /\ Includes(universes, p.universe)
          /\ p.universe \in TrackedSequences
          /\ discard(p, LastSeen(lastSequenceNumber, p.universe)))
         => /\ events' = <<<<"packet-out-of-order", p>>>>
            /\ p.universe \in DOMAIN lastSequenceNumber'
            /\ lastSequenceNumber'[p.universe] = lastSequenceNumber[p.universe]]_vars

(* C2.  In every state the universes whose group is joined on the socket   *)
(* are exactly the universes that have an entry in the last-seen map.      *)
C2_JoinedIffTracked == JoinedUniverses = TrackedSequences

(* C3.  When bind completes on a server constructed without universes,     *)
(* so that every tracked universe was passed to addUniverses while binding *)
(* and not dropped since, the join of every tracked universe is issued on  *)
(* the socket in that step and the universe is joined afterwards.          *)
C3_JoinIssuedAtBind ==
    [][(BindComplete /\ CtorUniverses(ctor) = <<>>)
       => \A u \in Universes :
            Includes(universes, u)
            => /\ <<"addMembership", getMulticastGroup(u)>> \in Issued(calls')
               /\ getMulticastGroup(u) \in joined']_vars

(* C4.  addUniverses([U]) for a universe U that is not in the tracked list *)
(* leaves U in the tracked list, with last-seen value 0, and has issued    *)
(* the join of U's group, and nothing else, on the socket.                 *)
C4_AddUntracked ==
    [][\A u \in Universes :
         (addUniverses(<<u>>) /\ ~Includes(universes, u))
         => /\ Includes(universes', u)
            /\ u \in DOMAIN lastSequenceNumber'
            /\ lastSequenceNumber'[u] = 0
            /\ calls' = <<<<"addMembership", getMulticastGroup(u)>>>>]_vars

\* addUniverses([1]) has acted on a listening server that did not track 1:
\* the join was issued and granted, 1 is tracked with last-seen value 0
C4_Witness ==
    /\ op = "addUniverses"
    /\ sockState = "listening"
    /\ calls = <<<<"addMembership", getMulticastGroup(1)>>>>
    /\ ~threw
    /\ Includes(universes, 1)
    /\ 1 \in TrackedSequences /\ lastSequenceNumber[1] = 0
    /\ getMulticastGroup(1) \in joined

(* C5.  dropUniverses([U]) for a universe U in the tracked list, whatever  *)
(* its multiplicity there, leaves U out of the tracked list, without a     *)
(* last-seen entry and with its group left.                                *)
C5_DropRemoves ==
    [][\A u \in Universes :
         (dropUniverses(<<u>>) /\ Includes(universes, u))
         => /\ ~Includes(universes', u)
            /\ u \notin DOMAIN lastSequenceNumber'
            /\ getMulticastGroup(u) \notin joined']_vars

(* C6.  A datagram that fails validation is reported by one packet-error   *)
(* event carrying the packet and the reason, by no other event, and leaves *)
(* the whole last-seen map as it was.                                      *)
C6_InvalidLeavesState ==
    [][\A p \in Packets :
         (onMessage(p) /\ validate(p) # ERR_NONE)
         => /\ events' = <<<<"packet-error", p, validate(p)>>>>
            /\ lastSequenceNumber' = lastSequenceNumber]_vars

\* an invalid datagram was reported whose sequence number is not the
\* last-seen value its universe has
C6_Witness ==
    /\ op = "message"
    /\ Len(events) = 1
    /\ events[1][1] = "packet-error"
    /\ events[1][2].universe \in TrackedSequences
    /\ lastSequenceNumber[events[1][2].universe] # events[1][2].sequenceNumber

(* C7.  A valid datagram for a tracked universe with a last-seen value S,   *)
(* whose sequence number N the discard rule does not classify as stale      *)
(* relative to S, is reported as packet and sets the last-seen value of its *)
(* universe to N.                                                           *)
C7_NewerAccepted ==
    [][\A p \in Packets :
         (/\ onMessage(p)
          /\ validate(p) = ERR_NONE
          /\ Includes(universes, p.universe)
          /\ p.universe \in TrackedSequences
          /\ ~discard(p, LastSeen(lastSequenceNumber, p.universe)))
         => /\ events' = <<<<"packet", p>>>>
            /\ p.universe \in DOMAIN lastSequenceNumber'
            /\ lastSequenceNumber'[p.universe] = p.sequenceNumber]_vars

\* a datagram with sequence number 245 was accepted for a tracked universe of
\* a server of the configuration form: its last-seen value was set at bind,
\* so the datagram was classified against one
C7_Witness ==
    /\ op = "message"
    /\ ConfigForm(ctor)
    /\ Len(events) = 1
    /\ events[1][1] = "packet"
    /\ events[1][2].sequenceNumber = 245
    /\ Includes(universes, events[1][2].universe)
    /\ lastSequenceNumber[events[1][2].universe] = 245

(* C8.  On a socket that was closed, addUniverses and dropUniverses leave  *)
(* the tracked list and the last-seen map as they were, issue no           *)
(* membership call and do not throw.                                       *)
C8_NoOpAfterClose ==
    [][\A list \in ArgLists :
         (~SockOpen(sockState) /\ (addUniverses(list) \/ dropUniverses(list)))
         => /\ universes' = universes
            /\ lastSequenceNumber' = lastSequenceNumber
            /\ calls' = <<>>
            /\ ~threw']_vars

(* C9.  Once the close event was emitted, no operation emits an event.     *)
C9_SilentAfterClose == [][sockState = "closed" => events' = <<>>]_vars

\* close() was called again after the close event
C9_Witness == sockState = "closed" /\ op = "close" /\ threw /\ events = <<>>

(* C10.  When the socket reports an error the server emits error and the   *)
(* socket ends closed; a socket that is closed stays closed.               *)
C10_ErrorCloses ==
    [][/\ SocketError => (events' = <<<<"error">>>> /\ sockState' \in {"closing", "closed"})
       /\ sockState = "closed" => sockState' = "closed"]_vars

(* C11.  The constructor resolves the tracked list from its first        *)
(* argument: a configuration object with universes a number u gives [u],   *)
(* a list L gives L, absent gives the empty list; the positional form with *)
(* a number u gives [u] and with a list L gives L; with no argument at all *)
(* the list is empty (the configuration form) or [1] (the positional       *)
(* form).                                                                  *)
C11_Resolved(arg) ==
    IF arg.kind = "number" THEN {<<arg.value>>}
    ELSE IF arg.kind = "array" THEN {arg.value}
    ELSE IF arg.kind = "undefined" THEN {<<>>, <<1>>}
    ELSE IF arg.universes.kind = "number" THEN {<<arg.universes.value>>}
    ELSE IF arg.universes.kind = "array" THEN {arg.universes.value}
    ELSE {<<>>}

C11_CtorResolves == op = "construct" => universes \in C11_Resolved(ctor)

(* C12.  addUniverses is idempotent: a universe that is tracked when the   *)
(* call starts gets no join, keeps its last-seen value and its number of   *)
(* entries in the tracked list, and a second addUniverses(L) right after   *)
(* the first leaves the tracked list and the last-seen map as the first    *)
(* left them.                                                              *)
C12_AddIdempotent ==
    [][\A list \in ArgLists :
         addUniverses(list)
         => /\ \A u \in Universes :
                 Includes(universes, u)
                 => /\ <<"addMembership", getMulticastGroup(u)>> \notin Issued(calls')
                    /\ LastSeen(lastSequenceNumber', u) = LastSeen(lastSequenceNumber, u)
                    /\ Cardinality({i \in 1..Len(universes') : universes'[i] = u})
                         = Cardinality({i \in 1..Len(universes) : universes[i] = u})
            /\ LET once == AddForEach(Start, list)
                   twice == AddForEach([once EXCEPT !.calls = <<>>, !.threw = FALSE], list)
               IN  /\ twice.universes = once.universes
                   /\ twice.lastSeq = once.lastSeq]_vars

(* C13.  dropUniverses of universes none of which is in the tracked list   *)
(* changes neither the tracked list nor the last-seen map nor the socket's *)
(* memberships, issues no membership call and does not throw.              *)
C13_DropUntrackedIgnored ==
    [][\A list \in ArgLists :
         (/\ \A i \in 1..Len(list) : ~Includes(universes, list[i])
          /\ dropUniverses(list))
         => /\ universes' = universes
            /\ lastSequenceNumber' = lastSequenceNumber
            /\ joined' = joined
            /\ calls' = <<>>
            /\ ~threw']_vars

\* dropUniverses has acted without a call while a universe that is not in the
\* tracked list has a last-seen entry (left by a datagram), and kept it
C13_Witness ==
    /\ op = "dropUniverses"
    /\ calls = <<>>
    /\ ~threw
    /\ \E u \in Universes : ~Includes(universes, u) /\ u \in TrackedSequences

(* C14.  While the socket is binding, addUniverses and dropUniverses issue *)
(* no membership call on it.                                               *)
C14_NoCallWhileBinding ==
    [][\A list \in ArgLists :
         (sockState = "binding" /\ (addUniverses(list) \/ dropUniverses(list)))
         => calls' = <<>>]_vars

\* whether a list of membership calls, issued in order on a socket with the
\* memberships set, joins no group that is joined and leaves none that is not
RECURSIVE C15_Balanced(_, _)
C15_Balanced(list, set) ==
    IF list = <<>>
    THEN TRUE
    ELSE LET call == Head(list)
         IN  IF call[1] = "addMembership"
             THEN call[2] \notin set /\ C15_Balanced(Tail(list), set \cup {call[2]})
             ELSE call[2] \in set /\ C15_Balanced(Tail(list), set \ {call[2]})

(* C15.  The membership calls every operation issues are balanced: no join *)
(* of a group the socket is a member of, no leave of a group it is not a   *)
(* member of.                                                              *)
C15_CallsBalanced == [][C15_Balanced(calls', joined)]_vars

(* C16.  The last-seen map changes with every datagram reported as packet, *)
(* to that datagram's sequence number for its universe, and with no other  *)
(* datagram: not with one reported as packet-out-of-order or packet-error. *)
C16_LastSeenFollowsAccepted ==
    [][\A p \in Packets :
         onMessage(p)
         => IF events'[1][1] = "packet"
            THEN lastSequenceNumber' = Put(lastSequenceNumber, p.universe, p.sequenceNumber)
            ELSE lastSequenceNumber' = lastSequenceNumber]_vars

(* C17.  Every datagram delivered produces exactly one event: packet-error *)
(* if it fails validation, else packet-out-of-order if the discard rule    *)
(* classifies it as stale, else packet.                                    *)
C17_OneEventPerDatagram ==
    [][\A p \in Packets :
         onMessage(p)
         => /\ Len(events') = 1
            /\ events'[1][2] = p
            /\ events'[1][1] =
                 IF validate(p) # ERR_NONE THEN "packet-error"
                 ELSE IF discard(p, LastSeen(lastSequenceNumber, p.universe))
                 THEN "packet-out-of-order"
                 ELSE "packet"]_vars

\* a stale datagram was reported, once, as packet-out-of-order
C17_Witness ==
    /\ op = "message"
    /\ Len(events) = 1
    /\ events[1][1] = "packet-out-of-order"

C19_JoinedBeforeListening ==
    [][(\E i \in 1..Len(events') : events'[i] = <<"listening">>)
       => /\ BindComplete
          /\ events' = <<<<"listening">>>>
          /\ \A u \in Universes :
               Includes(universes', u)
               => /\ <<"addMembership", getMulticastGroup(u)>> \in Issued(calls')
                  /\ getMulticastGroup(u) \in joined']_vars

\* bind completed on a server constructed with two universes: both joins
\* were issued and listening was emitted
C19_Witness ==
    /\ op = "bind"
    /\ events = <<<<"listening">>>>
    /\ Len(calls) = 2
    /\ JoinedUniverses = Universes

\* a last-seen map cut down to one universe
C20_Own(map, universe) == [x \in (DOMAIN map) \cap {universe} |-> map[x]]

(* C20.  A datagram for universe U leaves the last-seen value of every     *)
(* other universe, the tracked list and the socket's memberships as they   *)
(* were, and the event it produces is the one U's own last-seen value      *)
(* gives.                                                                  *)
C20_PerUniverse ==
    [][\A p \in Packets :
         onMessage(p)
         => /\ \A v \in Universes \ {p.universe} :
                 LastSeen(lastSequenceNumber', v) = LastSeen(lastSequenceNumber, v)
            /\ universes' = universes
            /\ joined' = joined
            /\ events' = MessageEvents(p, C20_Own(lastSequenceNumber, p.universe))]_vars

\* a valid datagram for one universe was handled while the other universe
\* has a last-seen value that is not this datagram's sequence number
C20_Witness ==
    /\ op = "message"
    /\ Len(events) = 1
    /\ events[1][1] \in {"packet", "packet-out-of-order"}
    /\ \E v \in TrackedSequences \ {events[1][2].universe} :
         lastSequenceNumber[v] # events[1][2].sequenceNumber

==========================================================================
